---- MODULE Spec2Model ----
(***************************************************************************)
(* A model of cf-kv-crud: the KVController of src/plugins/KV.ts and the    *)
(* route table of src/router/route.ts.                                     *)
(*                                                                         *)
(* The external key-value namespace is a map from keys to entries (value,  *)
(* metadata, expiration options).  Each of its primitives (list, get,      *)
(* getWithMetadata, put, delete) is one atomic step that either takes      *)
(* effect or fails with an error.  list is taken to return every key of    *)
(* the namespace, in lexicographic order.                                  *)
(*                                                                         *)
(* A client either sends an HTTP request to a route of the table or calls  *)
(* a controller method directly.  Every await on a store primitive is one  *)
(* action, so that the steps of two clients interleave exactly at the      *)
(* awaits of the code.                                                     *)
(***************************************************************************)
EXTENDS Naturals, Sequences, FiniteSets, TLC

\* ------------------------------------------------------------------ bounds

\* Longest array handed to addItems / deleteItems.
MaxItems == 2

Clients == {"c1", "c2"}

\* The keys of the namespace, in the order list() returns them.
KeyOrder == <<"a", "b">>
Keys == {KeyOrder[i] : i \in 1..Len(KeyOrder)}

\* Values a client may send: a text and a binary file content.
TextValues == {"txt"}
BinValues == {"bin"}
Values == TextValues \cup BinValues

\* ------------------------------------------------------- program constants

VALUE_TYPE == [TEXT |-> "TEXT", STREAM |-> "STREAM"]

\* addItem's default expirationTtl and expiration.
ExpirationTtl == 60
Expiration == 60

\* What a put without the option leaves unset.
Unset == 0

\* getAll's text in place of a value that is not TEXT.
Placeholder == "<not viewable, download it>"

\* The one namespace binding the environment holds, and the bearer token.
BoundNamespace == "KV"
AuthToken == "secret"

\* ---------------------------------------------------------------- metadata

NullMeta == [kind |-> "null", valueType |-> "undefined"]
ObjMeta(t) == [kind |-> "object", valueType |-> t]

\* -------------------------------------------------------------- the errors

\* A JavaScript error: its name and its message (a sequence of text pieces).
Err(name, message) == [name |-> name, message |-> message]
NoErr == Err("", <<>>)

\* Error.prototype.toString(): "<name>: <message>", the name alone when the
\* message is empty.
ErrToString(e) ==
    IF e.message = <<>> THEN <<e.name>> ELSE <<e.name, ": ">> \o e.message

\* new Error(x) for a thrown error x: the message is String(x).
NewError(e) == Err("Error", ErrToString(e))

\* The error a failing store primitive rejects with.
StoreError(prim) == Err("Error", <<"KV ", prim, " failed">>)
StorePrims == {"list", "get", "getWithMetadata", "put", "delete"}

\* metadata!.valueType on a null metadata.
NullDeref == Err("TypeError", <<"Cannot read properties of null (reading 'valueType')">>)

\* ---------------------------------------------------- the store primitives

Entry(value, metadata, ttl, exp) ==
    [value |-> value, metadata |-> metadata, expirationTtl |-> ttl, expiration |-> exp]

\* kv.put(key, value, options): writes or overwrites the entry of key.
KvPut(s, key, entry) ==
    [k \in DOMAIN s \cup {key} |-> IF k = key THEN entry ELSE s[k]]

\* kv.delete(key): removes the entry of key, if any.
KvDelete(s, key) == [k \in DOMAIN s \ {key} |-> s[k]]

\* kv.list(): the names of the keys present, in order.
KvList(s) == SelectSeq(KeyOrder, LAMBDA k : k \in DOMAIN s)

\* kv.get(key): the value, null for an absent key.
KvGet(s, key) == IF key \in DOMAIN s THEN s[key].value ELSE "null"

\* kv.getWithMetadata(key): value and metadata, both null for an absent key;
\* the metadata of an entry put without metadata is null.
KvGetWithMetadata(s, key) ==
    IF key \in DOMAIN s
    THEN [value |-> s[key].value, metadata |-> s[key].metadata]
    ELSE [value |-> "null", metadata |-> NullMeta]

Range(q) == {q[i] : i \in 1..Len(q)}

\* ------------------------------------------------------------ the requests

StoreRoutes ==
    {"/api/get", "/api/update", "/api/add", "/api/delete", "/api/getList",
     "/api/getKvKeys", "/api/upload", "/api/download"}
Routes == {"/", "/api/verifyToken", "/api/getKvList"} \cup StoreRoutes

\* The controller's methods, for a caller that uses the class directly.
ControllerOps ==
    {"hasKey", "addItem", "addItems", "updateItem", "getItem", "deleteItem",
     "deleteItems", "clear", "getAll", "getKeys"}

Methods == {"GET", "POST"}
\* A header that is not sent reads as null.
NoHeader == "<null>"
Falsy(s) == s \in {NoHeader, ""}

ItemLists == UNION {[1..n -> Keys] : n \in 0..MaxItems}

Req(top, method, auth, kv, kvKeys, key, value, items, bodyToken, tooLarge) ==
    [top |-> top, method |-> method, auth |-> auth, kv |-> kv, kvKeys |-> kvKeys,
     key |-> key, value |-> value, items |-> items, bodyToken |-> bodyToken,
     tooLarge |-> tooLarge]
NoReq == Req("", "GET", NoHeader, NoHeader, "", "", "", <<>>, "", FALSE)

\* ------------------------------------------------------ the entry guards

\* check.method(m), check.token(): the request's method is m, its bearer
\* token is the configured AUTH_TOKEN.
CheckMethod(r, m) == r.method = m
CheckToken(r) == r.auth = AuthToken

GuardVerifyToken(r) ==
    IF ~CheckMethod(r, "POST") THEN "rejectMethodEnter" ELSE "acceptEnter"

GuardGetKvList(r) ==
    IF ~CheckMethod(r, "GET") THEN "rejectMethodEnter"
    ELSE IF ~CheckToken(r) THEN "rejectTokenEnter"
    ELSE IF Falsy(r.kvKeys) THEN "rejectNotKVEnter"
    ELSE "acceptEnter"

\* Faulty variants of the shared guard: the selector header checked before
\* the token, and the token check left out.
GuardSelectorFirst(r, m) ==
    IF ~CheckMethod(r, m) THEN "rejectMethodEnter"
    ELSE IF Falsy(r.kv) THEN "rejectNotKVEnter"
    ELSE IF ~CheckToken(r) THEN "rejectTokenEnter"
    ELSE "acceptEnter"
GuardNoToken(r, m) ==
    IF ~CheckMethod(r, m) THEN "rejectMethodEnter"
    ELSE IF Falsy(r.kv) THEN "rejectNotKVEnter"
    ELSE "acceptEnter"

\* The guard shared, line for line, by the eight store-backed routes; m is
\* the method the route's guard names.
GuardStore(r, m) ==
    IF ~CheckMethod(r, m) THEN "rejectMethodEnter"
    ELSE IF ~CheckToken(r) THEN "rejectTokenEnter"
    ELSE IF Falsy(r.kv) THEN "rejectNotKVEnter"
    ELSE "acceptEnter"

GuardGet(r) == GuardStore(r, "GET")
GuardUpdate(r) == GuardStore(r, "POST")
GuardAdd(r) == GuardStore(r, "POST")
GuardDelete(r) == GuardStore(r, "POST")
GuardGetList(r) == GuardStore(r, "GET")
GuardGetKvKeys(r) == GuardStore(r, "GET")
GuardUpload(r) == GuardStore(r, "POST")
GuardDownload(r) == GuardStore(r, "GET")

\* The route table: whether the descriptor of a path has a beforeEnter, and
\* what it answers.
HasGuard(path) == path # "/"
BeforeEnter(path, r) ==
    CASE path = "/api/verifyToken" -> GuardVerifyToken(r)
      [] path = "/api/getKvList" -> GuardGetKvList(r)
      [] path = "/api/get" -> GuardGet(r)
      [] path = "/api/update" -> GuardUpdate(r)
      [] path = "/api/add" -> GuardAdd(r)
      [] path = "/api/delete" -> GuardDelete(r)
      [] path = "/api/getList" -> GuardGetList(r)
      [] path = "/api/getKvKeys" -> GuardGetKvKeys(r)
      [] path = "/api/upload" -> GuardUpload(r)
      [] path = "/api/download" -> GuardDownload(r)

\* The router: a descriptor without a guard is entered as it is.
EnterGuard(r) == IF HasGuard(r.top) THEN BeforeEnter(r.top, r) ELSE "acceptEnter"

\* ------------------------------------------------------------ the outcomes

Out(kind, guard, status, body, error, value) ==
    [kind |-> kind, guard |-> guard, status |-> status, body |-> body,
     error |-> error, value |-> value]
NoOut == Out("none", "", 0, <<>>, NoErr, <<>>)
\* The guard refused the request.
Rejected(g) == Out("rejected", g, 0, <<>>, NoErr, <<>>)
\* ServiceResponse: the status of each kind of answer.
Response(status, body) == Out("response", "acceptEnter", status, body, NoErr, <<>>)
OnSuccess(body) == Response(200, body)
OnBadRequest(msg) == Response(400, msg)
OnUnauthorized(msg) == Response(401, msg)
OnNotFound(msg) == Response(404, msg)
OnError(msg) == Response(500, msg)
\* A direct call of a controller method resolved with v, or rejected with e.
Returned(v) == Out("returned", "", 0, <<>>, NoErr, v)
Threw(e) == Out("threw", "", 0, <<>>, e, <<>>)

\* --------------------------------------------------------------- the state

VARIABLES
    store,  \* the namespace: a function from the keys present to their entries
    pc,     \* per client: the await its request is at, "idle" or "done"
    req,    \* per client: the request or call being served
    loc,    \* per client: the local variables of the running methods
    out,    \* per client: how the last request or call ended
    snap    \* per client: the namespace as it was when the request began (history)

vars == <<store, pc, req, loc, out, snap>>

Loc(keys, idx, meta, val, acc, pending) ==
    [keys |-> keys, idx |-> idx, meta |-> meta, val |-> val, acc |-> acc,
     pending |-> pending]
NoLoc == Loc(<<>>, 1, NullMeta, "null", <<>>, {})

\* The namespaces a run may start from: entries written with a valueType.
InitEntries ==
    {Entry(v, ObjMeta(VALUE_TYPE.TEXT), Unset, Unset) : v \in TextValues}
    \cup {Entry(v, ObjMeta(VALUE_TYPE.STREAM), Unset, Unset) : v \in BinValues}
InitStores == UNION {[D -> InitEntries] : D \in SUBSET Keys}
EmptyStore == [k \in {} |-> Entry("", NullMeta, Unset, Unset)]

InitWith(stores) ==
    /\ store \in stores
    /\ pc = [p \in Clients |-> "idle"]
    /\ req = [p \in Clients |-> NoReq]
    /\ loc = [p \in Clients |-> NoLoc]
    /\ out = [p \in Clients |-> NoOut]
    /\ snap = [p \in Clients |-> store]

Init == InitWith(InitStores)

\* ------------------------------------------------- the clients' requests

\* The fields a route's handler reads once its guard has accepted.
KeyRoutes == {"/api/get", "/api/update", "/api/add", "/api/delete", "/api/upload",
              "/api/download"}
ValueRoutes == {"/api/update", "/api/add", "/api/upload"}

\* Every HTTP request of the model: any method, token and selector header on
\* any path.  The body and query of a request are read by the handler alone,
\* so a request the guard refuses carries none.
GuardInputs ==
    {Req(path, m, auth, kv, BoundNamespace, "", "", <<>>, "", FALSE) :
        path \in Routes, m \in Methods, auth \in {AuthToken, "wrong", NoHeader},
        kv \in {NoHeader, "", BoundNamespace, "NOPE"}}
    \cup {Req("/api/getKvList", m, auth, NoHeader, "", "", "", <<>>, "", FALSE) :
        m \in Methods, auth \in {AuthToken, "wrong", NoHeader}}
Bodies(r) ==
    CASE r.top \in {"/api/get", "/api/delete", "/api/download"} ->
            {[r EXCEPT !.key = k] : k \in Keys \cup {""}}
      [] r.top \in {"/api/update", "/api/add"} ->
            {[r EXCEPT !.key = k, !.value = v] :
                k \in Keys \cup {""}, v \in TextValues \cup {""}}
      [] r.top = "/api/upload" ->
            {[r EXCEPT !.key = k, !.value = v, !.tooLarge = big] :
                k \in Keys, v \in BinValues, big \in BOOLEAN}
      [] r.top = "/api/verifyToken" ->
            {[r EXCEPT !.bodyToken = t] : t \in {"", "wrong", AuthToken}}
      [] OTHER -> {r}

\* Every direct call of a controller method.
DirectCall(op, key, value, items) ==
    Req(op, "GET", NoHeader, NoHeader, "", key, value, items, "", FALSE)
DirectCalls ==
    {DirectCall(op, key, value, <<>>) :
        op \in {"addItem", "updateItem"}, key \in Keys, value \in Values}
    \cup {DirectCall(op, key, "", <<>>) :
        op \in {"hasKey", "getItem", "deleteItem"}, key \in Keys}
    \cup {DirectCall(op, "", "", <<>>) : op \in {"clear", "getAll", "getKeys"}}
    \cup {DirectCall("addItems", "", value, items) :
        value \in TextValues, items \in ItemLists}
    \cup {DirectCall("deleteItems", "", "", items) : items \in ItemLists}

\* The key the running method works on: the current item's in a bulk call.
CurKey(p) ==
    IF req[p].top \in {"addItems", "deleteItems"} THEN req[p].items[loc[p].idx]
    ELSE req[p].key

\* The first store await of each handler or method.
FirstAwait(top) ==
    CASE top \in {"/api/get", "/api/download", "getItem"} -> "get_get"
      [] top \in {"/api/update", "/api/upload", "updateItem"} -> "upd_gwm"
      [] top \in {"/api/add", "addItem", "addItems", "hasKey", "getKeys",
                  "/api/getKvKeys"} -> "keys_list"
      [] top \in {"/api/delete", "deleteItem", "deleteItems"} -> "del_delete"
      [] top \in {"/api/getList", "getAll"} -> "all_list"
      [] top = "clear" -> "clear_list"

\* new KVController(env[header]) throws when the header names no binding.
NamespaceFound(r) == r.kv = BoundNamespace
NamespaceNotFound == Err("Error", <<"KV Namespace not found">>)

\* What a handler answers before it first awaits the store, NoOut when it
\* reaches that await.
Excute(r) ==
    LET bound == IF NamespaceFound(r) THEN NoOut
                 ELSE OnError(NamespaceNotFound.message)
    IN
    CASE r.top = "/" -> OnSuccess(<<"url">>)
      [] r.top = "/api/verifyToken" ->
            IF r.bodyToken = "" THEN OnBadRequest(<<"Token Not Found">>)
            ELSE IF r.bodyToken # AuthToken THEN OnUnauthorized(<<"Unauthorized">>)
            ELSE OnSuccess(<<"AUTH_TOKEN is correct">>)
      [] r.top = "/api/getKvList" ->
            OnSuccess(<<[label |-> r.kvKeys, value |-> r.kvKeys]>>)
      [] r.top = "/api/get" ->
            IF r.key = "" THEN OnBadRequest(<<"KEY Not Found">>) ELSE bound
      [] r.top \in {"/api/update", "/api/add"} ->
            IF r.key = "" \/ r.value = ""
            THEN OnBadRequest(<<"KEY or VALUE Not Found">>) ELSE bound
      [] r.top = "/api/delete" ->
            IF r.key = "" THEN OnBadRequest(<<"KEY Not Found">>) ELSE bound
      [] r.top \in {"/api/getList", "/api/getKvKeys"} -> bound
      [] r.top = "/api/upload" ->
            IF r.tooLarge THEN OnBadRequest(<<"File size is too large">>) ELSE bound
      [] r.top = "/api/download" ->
            IF r.key = "" THEN OnBadRequest(<<"File name is required">>) ELSE bound

\* What a bulk method throws before its loop: the empty-array check, caught
\* and wrapped by the method's own catch.
BulkPrecheck(r) ==
    IF r.top = "addItems" /\ Len(r.items) = 0
    THEN Threw(NewError(Err("Error", <<"No items to add">>)))
    ELSE IF r.top = "deleteItems" /\ Len(r.items) = 0
    THEN Threw(NewError(Err("Error", <<"No keys to delete">>)))
    ELSE NoOut

\* How a request ends when error e escapes the controller method its handler
\* called: the handler's catch answers 500 with e.message, a bulk method's
\* catch wraps it once more, a direct caller gets e.
Escape(top, e) ==
    IF top \in Routes THEN OnError(e.message)
    ELSE IF top \in {"addItems", "deleteItems"} THEN Threw(NewError(e))
    ELSE Threw(e)

\* ------------------------------------------------------------- the actions

Idle(p) == pc[p] \in {"idle", "done"} /\ loc[p].pending = {}

\* The request ends with outcome o; of the locals l only the deletes still in
\* flight outlive it.
Finish(p, o, l) ==
    /\ pc' = [pc EXCEPT ![p] = "done"]
    /\ out' = [out EXCEPT ![p] = o]
    /\ loc' = [loc EXCEPT ![p] = [NoLoc EXCEPT !.pending = l.pending]]

\* The request goes on to the await at label.
Goto(p, label, l) ==
    /\ pc' = [pc EXCEPT ![p] = label]
    /\ loc' = [loc EXCEPT ![p] = l]
    /\ UNCHANGED out

Begin(p, r, o) ==
    /\ req' = [req EXCEPT ![p] = r]
    /\ snap' = [snap EXCEPT ![p] = store]
    /\ pc' = [pc EXCEPT ![p] = IF o = NoOut THEN FirstAwait(r.top) ELSE "done"]
    /\ out' = [out EXCEPT ![p] = o]
    /\ loc' = [loc EXCEPT ![p] = NoLoc]
    /\ UNCHANGED store

\* An HTTP request arrives: the router evaluates the route's guard and, when
\* it accepts, runs the handler to its first store await.
Dispatch(p) ==
    /\ Idle(p)
    /\ \E r \in GuardInputs :
        LET g == EnterGuard(r)
        IN IF g # "acceptEnter" THEN Begin(p, r, Rejected(g))
           ELSE \E b \in Bodies(r) : Begin(p, b, Excute(b))

\* A controller method is called directly.
Call(p) ==
    /\ Idle(p)
    /\ \E r \in DirectCalls : Begin(p, r, BulkPrecheck(r))

\* addItem is called while other calls of it may be running.
ConcCalls == {r \in DirectCalls : r.top = "addItem"}
CallConcurrently(p) ==
    /\ Idle(p)
    /\ \E r \in ConcCalls : Begin(p, r, BulkPrecheck(r))

\* What getItem resolves with: always an object, never null.
GetItemResult(value, valueType) ==
    [kind |-> "object", value |-> value, valueType |-> valueType]
IsNull(x) == x.kind = "null"

\* The entry addItem puts: no metadata, both expiration options defaulted.
AddItemEntry(value) == Entry(value, NullMeta, ExpirationTtl, Expiration)

\* Faulty variant: the put drops the metadata.
UpdateItemEntryNoMeta(value, metadata) == Entry(value, NullMeta, Unset, Unset)

\* The entry updateItem puts: the metadata it read, no expiration.
UpdateItemEntry(value, metadata) == Entry(value, metadata, Unset, Unset)

\* getAll's view of an entry: valueType defaults to TEXT, a non-text value is
\* replaced by a placeholder.
GetAllItem(key, g) ==
    LET valueType ==
            IF g.metadata.kind = "null" \/ g.metadata.valueType = "undefined"
            THEN VALUE_TYPE.TEXT ELSE g.metadata.valueType
    IN [key |-> key,
        value |-> IF valueType = VALUE_TYPE.TEXT THEN g.value ELSE Placeholder,
        valueType |-> valueType]

\* Faulty variant: the existence check never finds the key.
HasKeyNever(keys, key) == FALSE

\* hasKey: keys.includes(key) on what getKeys returned.
HasKey(keys, key) == key \in Range(keys)

\* Faulty variant: only the first listed key is deleted.
ClearFirstOnly(keys) == {keys[1]}

\* clear: the keys it starts a delete for, one per listed key.
ClearTargets(keys) == Range(keys)

\* The next item of a bulk method's loop, or its end.
NextItem(p, first) ==
    IF loc[p].idx < Len(req[p].items)
    THEN Goto(p, first, [loc[p] EXCEPT !.idx = @ + 1])
    ELSE Finish(p, Returned(<<>>), loc[p])

\* getKeys: kv.list().  Neither getKeys nor hasKey catches; addItem throws
\* inside its try when the key is listed.
GetKeysList(p) ==
    /\ pc[p] = "keys_list"
    /\ UNCHANGED <<store, req, snap>>
    /\ \E ok \in BOOLEAN :
        LET top == req[p].top
            keys == KvList(store)
            inAdd == top \in {"/api/add", "addItem", "addItems"}
        IN
        IF ~ok
        THEN Finish(p, Escape(top, IF inAdd THEN NewError(StoreError("list"))
                                   ELSE StoreError("list")), loc[p])
        ELSE IF top = "getKeys" THEN Finish(p, Returned(keys), loc[p])
        ELSE IF top = "/api/getKvKeys" THEN Finish(p, OnSuccess(keys), loc[p])
        ELSE IF top = "hasKey"
        THEN Finish(p, Returned(HasKey(keys, req[p].key)), loc[p])
        ELSE IF HasKey(keys, CurKey(p))
        THEN Finish(p, Escape(top, NewError(Err("Error",
                        <<"Key ", CurKey(p), " already exists">>))), loc[p])
        ELSE Goto(p, "add_put", loc[p])

\* Faulty variant: the put is skipped when the key has appeared meanwhile.
AddItemPutIfAbsent(p) ==
    /\ pc[p] = "add_put"
    /\ UNCHANGED <<req, snap>>
    /\ \E ok \in BOOLEAN :
        LET top == req[p].top
        IN
        IF ~ok
        THEN /\ Finish(p, Escape(top, NewError(StoreError("put"))), loc[p])
             /\ UNCHANGED store
        ELSE /\ store' = IF CurKey(p) \in DOMAIN store THEN store
                         ELSE KvPut(store, CurKey(p), AddItemEntry(req[p].value))
             /\ IF top = "/api/add" THEN Goto(p, "get_get", loc[p])
                ELSE IF top = "addItems" THEN NextItem(p, "keys_list")
                ELSE Finish(p, Returned(<<>>), loc[p])

\* addItem: kv.put(key, value, {expirationTtl, expiration}), which overwrites.
AddItemPut(p) ==
    /\ pc[p] = "add_put"
    /\ UNCHANGED <<req, snap>>
    /\ \E ok \in BOOLEAN :
        LET top == req[p].top
        IN
        IF ~ok
        THEN /\ Finish(p, Escape(top, NewError(StoreError("put"))), loc[p])
             /\ UNCHANGED store
        ELSE /\ store' = KvPut(store, CurKey(p), AddItemEntry(req[p].value))
             /\ IF top = "/api/add" THEN Goto(p, "get_get", loc[p])
                ELSE IF top = "addItems" THEN NextItem(p, "keys_list")
                ELSE Finish(p, Returned(<<>>), loc[p])

\* updateItem: kv.getWithMetadata(key).
UpdateItemGet(p) ==
    /\ pc[p] = "upd_gwm"
    /\ UNCHANGED <<store, req, snap>>
    /\ \E ok \in BOOLEAN :
        IF ~ok
        THEN Finish(p, Escape(req[p].top, NewError(StoreError("getWithMetadata"))),
                    loc[p])
        ELSE Goto(p, "upd_put",
                  [loc[p] EXCEPT !.meta = KvGetWithMetadata(store, req[p].key).metadata])

\* updateItem: kv.put(key, value, {metadata}).
UpdateItemPut(p) ==
    /\ pc[p] = "upd_put"
    /\ UNCHANGED <<req, snap>>
    /\ \E ok \in BOOLEAN :
        LET top == req[p].top
        IN
        IF ~ok
        THEN /\ Finish(p, Escape(top, NewError(StoreError("put"))), loc[p])
             /\ UNCHANGED store
        ELSE /\ store' = KvPut(store, req[p].key,
                               UpdateItemEntry(req[p].value, loc[p].meta))
             /\ IF top = "/api/update" THEN Goto(p, "get_get", loc[p])
                ELSE IF top = "/api/upload"
                THEN Finish(p, OnSuccess([fileName |-> req[p].key]), loc[p])
                ELSE Finish(p, Returned(<<>>), loc[p])

\* getItem: kv.get(key).
GetItemGet(p) ==
    /\ pc[p] = "get_get"
    /\ UNCHANGED <<store, req, snap>>
    /\ \E ok \in BOOLEAN :
        IF ~ok
        THEN Finish(p, Escape(req[p].top, NewError(StoreError("get"))), loc[p])
        ELSE Goto(p, "get_gwm", [loc[p] EXCEPT !.val = KvGet(store, req[p].key)])

\* getItem: kv.getWithMetadata(key), then metadata!.valueType; the handler
\* answers with what getItem resolved with.
GetItemMeta(p) ==
    /\ pc[p] = "get_gwm"
    /\ UNCHANGED <<store, req, snap>>
    /\ \E ok \in BOOLEAN :
        LET top == req[p].top
            metadata == KvGetWithMetadata(store, req[p].key).metadata
            value == GetItemResult(loc[p].val, metadata.valueType)
        IN
        IF ~ok
        THEN Finish(p, Escape(top, NewError(StoreError("getWithMetadata"))), loc[p])
        ELSE IF metadata.kind = "null"
        THEN Finish(p, Escape(top, NewError(NullDeref)), loc[p])
        ELSE IF top = "getItem" THEN Finish(p, Returned(value), loc[p])
        ELSE IF top = "/api/get" /\ IsNull(value)
        THEN Finish(p, OnNotFound(<<"Not Found">>), loc[p])
        ELSE IF top = "/api/download" /\ IsNull(value)
        THEN Finish(p, OnNotFound(<<"File not found">>), loc[p])
        ELSE IF top = "/api/download" THEN Finish(p, OnSuccess(value), loc[p])
        ELSE Finish(p, OnSuccess([key |-> req[p].key, value |-> value]), loc[p])

\* deleteItem: kv.delete(key).
DeleteItemDelete(p) ==
    /\ pc[p] = "del_delete"
    /\ UNCHANGED <<req, snap>>
    /\ \E ok \in BOOLEAN :
        LET top == req[p].top
        IN
        IF ~ok
        THEN /\ Finish(p, Escape(top, NewError(StoreError("delete"))), loc[p])
             /\ UNCHANGED store
        ELSE /\ store' = KvDelete(store, CurKey(p))
             /\ IF top = "/api/delete" THEN Finish(p, OnSuccess(<<>>), loc[p])
                ELSE IF top = "deleteItems" THEN NextItem(p, "del_delete")
                ELSE Finish(p, Returned(<<>>), loc[p])

\* clear: kv.list(), then one kv.delete per listed key, all started at once.
ClearList(p) ==
    /\ pc[p] = "clear_list"
    /\ UNCHANGED <<store, req, snap>>
    /\ \E ok \in BOOLEAN :
        LET keys == KvList(store)
        IN
        IF ~ok THEN Finish(p, Threw(NewError(StoreError("list"))), loc[p])
        ELSE IF keys = <<>> THEN Finish(p, Returned(<<>>), loc[p])
        ELSE Goto(p, "clear_all", [loc[p] EXCEPT !.keys = keys, !.pending = ClearTargets(keys)])

\* clear: one of the pending deletes settles, in any order.  Promise.all
\* rejects with the first failure and resolves when none is left.
ClearDelete(p) ==
    /\ pc[p] = "clear_all"
    /\ UNCHANGED <<req, snap>>
    /\ \E k \in loc[p].pending, ok \in BOOLEAN :
        LET l == [loc[p] EXCEPT !.pending = @ \ {k}]
        IN
        IF ~ok
        THEN /\ Finish(p, Threw(NewError(StoreError("delete"))), l)
             /\ UNCHANGED store
        ELSE /\ store' = KvDelete(store, k)
             /\ IF l.pending = {} THEN Finish(p, Returned(<<>>), l)
                ELSE Goto(p, "clear_all", l)

\* clear has rejected: a delete still in flight takes effect, or is lost.
ClearStray(p) ==
    /\ pc[p] = "done"
    /\ UNCHANGED <<pc, req, out, snap>>
    /\ \E k \in loc[p].pending, ok \in BOOLEAN :
        /\ loc' = [loc EXCEPT ![p].pending = @ \ {k}]
        /\ store' = IF ok THEN KvDelete(store, k) ELSE store

\* getAll: kv.list().  getAll has no catch.
GetAllList(p) ==
    /\ pc[p] = "all_list"
    /\ UNCHANGED <<store, req, snap>>
    /\ \E ok \in BOOLEAN :
        LET top == req[p].top
            keys == KvList(store)
        IN
        IF ~ok THEN Finish(p, Escape(top, StoreError("list")), loc[p])
        ELSE IF keys = <<>>
        THEN Finish(p, IF top = "getAll" THEN Returned(<<>>) ELSE OnSuccess(<<>>), loc[p])
        ELSE Goto(p, "all_gwm", [loc[p] EXCEPT !.keys = keys, !.idx = 1, !.acc = <<>>])

\* getAll: kv.getWithMetadata of the next listed key.
GetAllMeta(p) ==
    /\ pc[p] = "all_gwm"
    /\ UNCHANGED <<store, req, snap>>
    /\ \E ok \in BOOLEAN :
        LET top == req[p].top
            key == loc[p].keys[loc[p].idx]
            result == Append(loc[p].acc, GetAllItem(key, KvGetWithMetadata(store, key)))
            l == [loc[p] EXCEPT !.acc = result, !.idx = @ + 1]
        IN
        IF ~ok THEN Finish(p, Escape(top, StoreError("getWithMetadata")), loc[p])
        ELSE IF loc[p].idx < Len(loc[p].keys) THEN Goto(p, "all_gwm", l)
        ELSE Finish(p, IF top = "getAll" THEN Returned(result) ELSE OnSuccess(result), l)

\* The controller used directly by one caller, one call at a time: no
\* concurrent writers.
Solo == "c1"
Next ==
    \/ Call(Solo)
    \/ GetKeysList(Solo)
    \/ AddItemPut(Solo)
    \/ UpdateItemGet(Solo)
    \/ UpdateItemPut(Solo)
    \/ GetItemGet(Solo)
    \/ GetItemMeta(Solo)
    \/ DeleteItemDelete(Solo)
    \/ ClearList(Solo)
    \/ ClearDelete(Solo)
    \/ ClearStray(Solo)
    \/ GetAllList(Solo)
    \/ GetAllMeta(Solo)
Spec == Init /\ [][Next]_vars

\* The HTTP service: one client sends requests through the router, one at a
\* time, to a namespace that starts empty or with one tagged text entry.
HttpStores == {EmptyStore, [k \in {KeyOrder[1]} |-> Entry("txt", ObjMeta(VALUE_TYPE.TEXT), Unset, Unset)]}
InitHttp == InitWith(HttpStores)
NextHttp ==
    \/ Dispatch(Solo)
    \/ GetKeysList(Solo)
    \/ AddItemPut(Solo)
    \/ UpdateItemGet(Solo)
    \/ UpdateItemPut(Solo)
    \/ GetItemGet(Solo)
    \/ GetItemMeta(Solo)
    \/ DeleteItemDelete(Solo)
    \/ GetAllList(Solo)
    \/ GetAllMeta(Solo)
SpecHttp == InitHttp /\ [][NextHttp]_vars

\* Two callers add items at once: their steps interleave at every await.
NextConc ==
    \E p \in Clients :
        \/ CallConcurrently(p)
        \/ GetKeysList(p)
        \/ AddItemPut(p)
SpecConc == Init /\ [][NextConc]_vars

\* ------------------------------------------------------------ the claims

\* The request or call of p has ended.
Ended(p) == pc[p] = "done"

\* A message that comes from a failed store primitive: it ends with the
\* primitive's own message.
FromStoreFailure(msg) ==
    /\ Len(msg) >= 3
    /\ SubSeq(msg, Len(msg) - 2, Len(msg)) \in {StoreError(prim).message : prim \in StorePrims}

\* The handler of p answered 500 because a store primitive failed.
StoreFailed(p) ==
    \/ out[p].kind = "response" /\ out[p].status = 500 /\ FromStoreFailure(out[p].body)
    \/ out[p].kind = "threw" /\ FromStoreFailure(out[p].error.message)

\* Every entry but that of key is in t what it is in s.
SameExcept(s, t, key) ==
    /\ DOMAIN s \ {key} = DOMAIN t \ {key}
    /\ \A k \in DOMAIN s \ {key} : s[k] = t[k]

\* C1: with no concurrent writers, addItem on a key that is present throws
\* and leaves the namespace as it was; on an absent key it writes the entry
\* (changing no other) and resolves, and throws only when a store primitive
\* fails, again leaving the namespace as it was.
C1_AddItemExistsOrWrites ==
    \A p \in Clients :
        req[p].top = "addItem" /\ Ended(p) =>
            LET key == req[p].key
            IN
            /\ key \in DOMAIN snap[p] => out[p].kind = "threw" /\ store = snap[p]
            /\ key \notin DOMAIN snap[p] /\ out[p].kind = "returned" =>
                /\ key \in DOMAIN store
                /\ store[key].value = req[p].value
                /\ SameExcept(snap[p], store, key)
            /\ key \notin DOMAIN snap[p] /\ out[p].kind = "threw" =>
                StoreFailed(p) /\ store = snap[p]

\* addItem was refused for a key that was present, with the store answering.
C1_Witness ==
    \E p \in Clients :
        /\ req[p].top = "addItem" /\ Ended(p)
        /\ req[p].key \in DOMAIN snap[p]
        /\ out[p].kind = "threw" /\ ~StoreFailed(p)
        /\ snap[p][req[p].key].value # req[p].value

\* C3: when clear() resolves and nothing else writes meanwhile, every key
\* that the namespace listed when clear() began is absent, whatever the order
\* in which the deletes settled.
C3_ClearRemovesListed ==
    \A p \in Clients :
        req[p].top = "clear" /\ Ended(p) /\ out[p].kind = "returned" =>
            \A k \in Range(KvList(snap[p])) : k \notin DOMAIN store

\* clear() resolved on a namespace that held every key.
C3_Witness ==
    \E p \in Clients :
        /\ req[p].top = "clear" /\ Ended(p) /\ out[p].kind = "returned"
        /\ DOMAIN snap[p] = Keys
        /\ Cardinality(Keys) >= 2

\* C8: updateItem that resolves leaves the key with the new value and, when
\* the key existed, with exactly the metadata it had; it creates the entry of
\* a key that did not exist; no other entry changes.
C8_UpdateKeepsMetadata ==
    \A p \in Clients :
        req[p].top = "updateItem" /\ Ended(p) /\ out[p].kind = "returned" =>
            LET key == req[p].key
            IN
            /\ key \in DOMAIN store
            /\ store[key].value = req[p].value
            /\ key \in DOMAIN snap[p] => store[key].metadata = snap[p][key].metadata
            /\ SameExcept(snap[p], store, key)

\* updateItem replaced the value of a key that carried a valueType.
C8_Witness ==
    \E p \in Clients :
        /\ req[p].top = "updateItem" /\ Ended(p) /\ out[p].kind = "returned"
        /\ req[p].key \in DOMAIN snap[p]
        /\ snap[p][req[p].key].metadata.kind = "object"
        /\ snap[p][req[p].key].value # req[p].value
        /\ store[req[p].key].value = req[p].value

\* The method each store-backed route is served under.
RouteMethod(path) ==
    IF path \in {"/api/get", "/api/getList", "/api/getKvKeys", "/api/download"}
    THEN "GET" ELSE "POST"

\* The router has decided on the request of p, and how.
Decided(p) == pc[p] # "idle" /\ req[p].top \in Routes
Entered(p) == Decided(p) /\ out[p].kind # "rejected"
Decision(p) == IF out[p].kind = "rejected" THEN out[p].guard ELSE "acceptEnter"

\* C2: on every store-backed route the guard's answer is the first rejection
\* in the order method, token, selector header, and acceptance only when all
\* three checks pass.
C2_FirstRejectionWins ==
    \A p \in Clients :
        Decided(p) /\ req[p].top \in StoreRoutes =>
            LET r == req[p]
                methodOk == r.method = RouteMethod(r.top)
                tokenOk == r.auth = AuthToken
                selectorOk == ~Falsy(r.kv)
            IN Decision(p) =
                IF ~methodOk THEN "rejectMethodEnter"
                ELSE IF ~tokenOk THEN "rejectTokenEnter"
                ELSE IF ~selectorOk THEN "rejectNotKVEnter"
                ELSE "acceptEnter"

\* A request with the right method but neither token nor selector header was
\* refused for its token.
C2_Witness ==
    \E p \in Clients :
        /\ Decided(p) /\ req[p].top \in StoreRoutes
        /\ req[p].method = RouteMethod(req[p].top)
        /\ req[p].auth # AuthToken /\ Falsy(req[p].kv)
        /\ Decision(p) = "rejectTokenEnter"

\* C9 as stated: every route of the table has a guard that composes the
\* method, token and selector-header checks, so a handler is entered only by
\* a request that passes all three.
C9_EveryRouteGuardsAllThree ==
    \A p \in Clients :
        Entered(p) =>
            /\ HasGuard(req[p].top)
            /\ req[p].top \in StoreRoutes => req[p].method = RouteMethod(req[p].top)
            /\ req[p].auth = AuthToken
            /\ ~Falsy(req[p].kv)

\* C9 as amended: every route but "/" has a guard; a store-backed route is
\* entered only with its method, the token and the selector header;
\* /api/getKvList only with GET, the token and a configured KV_KEYS;
\* /api/verifyToken only with POST.
C9_GuardsPerRoute ==
    /\ \A path \in Routes \ {"/"} : HasGuard(path)
    /\ ~HasGuard("/")
    /\ \A p \in Clients :
        Entered(p) =>
            LET r == req[p]
            IN
            /\ r.top \in StoreRoutes =>
                r.method = RouteMethod(r.top) /\ r.auth = AuthToken /\ ~Falsy(r.kv)
            /\ r.top = "/api/getKvList" =>
                r.method = "GET" /\ r.auth = AuthToken /\ ~Falsy(r.kvKeys)
            /\ r.top = "/api/verifyToken" => r.method = "POST"

\* The handler of /api/verifyToken ran for a request carrying neither the
\* token nor a selector header.
C9_Witness ==
    \E p \in Clients :
        /\ Entered(p) /\ req[p].top = "/api/verifyToken"
        /\ req[p].auth # AuthToken /\ Falsy(req[p].kv)
        /\ out[p].kind = "response"

\* C4: addItem's put is not conditional on the key being absent: a put that
\* succeeds leaves the caller's value under the key, whatever another caller
\* has written there since the check.
C4_LaterPutOverwrites ==
    [][\A p \in Clients :
            pc[p] = "add_put" /\ pc'[p] = "done" /\ out'[p].kind = "returned" =>
                /\ req[p].key \in DOMAIN store'
                /\ store'[req[p].key].value = req[p].value]_vars

\* Two addItem calls for the same key, absent when each began, both resolved
\* with different values.
C4_Witness ==
    \E p, q \in Clients :
        /\ p # q
        /\ req[p].top = "addItem" /\ req[q].top = "addItem"
        /\ Ended(p) /\ Ended(q)
        /\ out[p].kind = "returned" /\ out[q].kind = "returned"
        /\ req[p].key = req[q].key
        /\ req[p].value # req[q].value
        /\ req[p].key \notin DOMAIN snap[p] /\ req[q].key \notin DOMAIN snap[q]
        /\ store[req[p].key].value = req[q].value

\* C5: every entry of the namespace carries metadata whose valueType is TEXT
\* or STREAM.
C5_EveryEntryTagged ==
    \A k \in DOMAIN store :
        /\ store[k].metadata.kind = "object"
        /\ store[k].metadata.valueType \in {VALUE_TYPE.TEXT, VALUE_TYPE.STREAM}

\* C6: a controller method that ends because a store primitive failed throws
\* a generic Error whose message is the primitive's message.
C6_RethrownWithOriginalMessage ==
    \A p \in Clients :
        Ended(p) /\ out[p].kind = "threw" /\ FromStoreFailure(out[p].error.message) =>
            /\ out[p].error.name = "Error"
            /\ out[p].error.message \in {StoreError(prim).message : prim \in StorePrims}

\* C7: an accepted GET /api/get for a key that is absent is answered 404 (the
\* store answering every call), getItem having resolved with a null value.
C7_AbsentKeyIsNotFound ==
    \A p \in Clients :
        /\ req[p].top = "/api/get" /\ Ended(p) /\ out[p].kind = "response"
        /\ req[p].key # "" /\ NamespaceFound(req[p])
        /\ req[p].key \notin DOMAIN store
        /\ ~StoreFailed(p)
        => out[p].status = 404

\* C10: an accepted POST /api/add (the store answering every call) that is
\* answered 400 or 500 leaves the namespace as it was, and one that wrote an
\* entry is answered 200.
C10_AddAllOrNothing ==
    \A p \in Clients :
        req[p].top = "/api/add" /\ Ended(p) /\ out[p].kind = "response" /\ ~StoreFailed(p) =>
            /\ out[p].status \in {400, 500} => store = snap[p]
            /\ store # snap[p] => out[p].status = 200

====
